---------------------------- MODULE Spec2Model ----------------------------
(***************************************************************************)
(* Model of the SEO analyzer front end (src/script.js): the twelve metric  *)
(* evaluators, the score aggregation, and the analyzeWebsite /             *)
(* performAnalysis run that consumes the server-sent event stream.         *)
(***************************************************************************)
EXTENDS Integers, Sequences, FiniteSets, TLC

VARIABLES
    metrics,           \* this.metrics: metric key -> [name, weight]
    evalMetric,        \* the metric generateMetricResult is called with
    evalDraws,         \* the values its Math.random() calls come to
    evalResult,        \* the value the generateMetricResult call returned
    aggResults,        \* results mapping handed to calculateTotalScore
    aggTotal,          \* values the calculateTotalScore calls returned, in order
    aggIssues,         \* the list the collectAllIssues call returned
    urlField,          \* value of the #websiteUrl input
    lastAlert,         \* text of the last alert() shown
    overlayHidden,     \* #loadingOverlay carries class "hidden"
    btnDisabled,       \* #analyzeBtn.disabled
    progressMessages,  \* children of #progressMessages
    pc,                \* where the analyzeWebsite call is suspended
    reqUrl,            \* url sent in the body of the fetch
    wire,              \* bytes of the response body not yet read
    events,            \* the events the server wrote to the response
    lostTail,          \* characters missing at the end of the response
    buffer,            \* performAnalysis: buffer
    result,            \* performAnalysis: result
    processed,         \* events dispatched by the for loop of performAnalysis
    outcome,           \* how the last performAnalysis call ended
    displayed,         \* what displayResults rendered last
    runs,              \* the analyzeWebsite calls made, each with its locals
    reqs               \* the requests the Node proxy (server.js) has received

vars == <<metrics, evalMetric, evalDraws, evalResult, aggResults, aggTotal, aggIssues,
          urlField, lastAlert, overlayHidden, btnDisabled, progressMessages,
          pc, reqUrl, wire, events, lostTail, buffer, result, processed,
          outcome, displayed, runs, reqs>>

evalVars == <<evalMetric, evalDraws, evalResult>>
aggVars == <<aggResults, aggTotal, aggIssues>>
uiVars == <<urlField, lastAlert, overlayHidden, btnDisabled, progressMessages,
            pc, reqUrl, wire, events, lostTail, buffer, result, processed,
            outcome, displayed>>

Null == "null"

Max(a, b) == IF a > b THEN a ELSE b
Min(a, b) == IF a < b THEN a ELSE b

\* The first n elements of s: Array.prototype.slice(0, n).
Slice(s, n) == SubSeq(s, 1, Min(n, Len(s)))

MetricKeys ==
    {"pageSpeed", "mobileOptimization", "metaTags", "headingStructure",
     "imageOptimization", "internalLinking", "sslCertificate",
     "socialMediaTags", "contentQuality", "urlStructure", "robotsTxt",
     "sitemap"}

\* Object.keys(this.metrics): the insertion order of setupMetrics.
KeyOrder ==
    <<"pageSpeed", "mobileOptimization", "metaTags", "headingStructure",
      "imageOptimization", "internalLinking", "sslCertificate",
      "socialMediaTags", "contentQuality", "urlStructure", "robotsTxt",
      "sitemap">>

setupMetrics_wrongWeight ==
    [k \in MetricKeys |->
        CASE k = "pageSpeed"          -> [name |-> "Page Speed", weight |-> 15]
          [] k = "mobileOptimization" -> [name |-> "Mobile Optimization", weight |-> 12]
          [] k = "metaTags"           -> [name |-> "Meta Tags", weight |-> 10]
          [] k = "headingStructure"   -> [name |-> "Heading Structure", weight |-> 8]
          [] k = "imageOptimization"  -> [name |-> "Image Optimization", weight |-> 8]
          [] k = "internalLinking"    -> [name |-> "Internal Linking", weight |-> 8]
          [] k = "sslCertificate"     -> [name |-> "SSL Certificate", weight |-> 10]
          [] k = "socialMediaTags"    -> [name |-> "Social Media Tags", weight |-> 5]
          [] k = "contentQuality"     -> [name |-> "Content Quality", weight |-> 12]
          [] k = "urlStructure"       -> [name |-> "URL Structure", weight |-> 6]
          [] k = "robotsTxt"          -> [name |-> "Robots.txt", weight |-> 4]
          [] k = "sitemap"            -> [name |-> "XML Sitemap", weight |-> 3]]

setupMetrics ==
    [k \in MetricKeys |->
        CASE k = "pageSpeed"          -> [name |-> "Page Speed", weight |-> 15]
          [] k = "mobileOptimization" -> [name |-> "Mobile Optimization", weight |-> 12]
          [] k = "metaTags"           -> [name |-> "Meta Tags", weight |-> 10]
          [] k = "headingStructure"   -> [name |-> "Heading Structure", weight |-> 8]
          [] k = "imageOptimization"  -> [name |-> "Image Optimization", weight |-> 7]
          [] k = "internalLinking"    -> [name |-> "Internal Linking", weight |-> 8]
          [] k = "sslCertificate"     -> [name |-> "SSL Certificate", weight |-> 10]
          [] k = "socialMediaTags"    -> [name |-> "Social Media Tags", weight |-> 5]
          [] k = "contentQuality"     -> [name |-> "Content Quality", weight |-> 12]
          [] k = "urlStructure"       -> [name |-> "URL Structure", weight |-> 6]
          [] k = "robotsTxt"          -> [name |-> "Robots.txt", weight |-> 4]
          [] k = "sitemap"            -> [name |-> "XML Sitemap", weight |-> 3]]

\* The weights the README documents for the twelve metrics.
READMEWeights ==
    [k \in MetricKeys |->
        CASE k = "pageSpeed"          -> 15
          [] k = "mobileOptimization" -> 12
          [] k = "metaTags"           -> 10
          [] k = "headingStructure"   -> 8
          [] k = "imageOptimization"  -> 8
          [] k = "internalLinking"    -> 10
          [] k = "sslCertificate"     -> 12
          [] k = "socialMediaTags"    -> 6
          [] k = "contentQuality"     -> 10
          [] k = "urlStructure"       -> 5
          [] k = "robotsTxt"          -> 2
          [] k = "sitemap"            -> 2]

getScoreStatus_strictExcellent(score) ==
    IF score > 90 THEN "excellent"
    ELSE IF score >= 75 THEN "good"
    ELSE IF score >= 60 THEN "warning"
    ELSE "poor"

getScoreStatus(score) ==
    IF score >= 90 THEN "excellent"
    ELSE IF score >= 75 THEN "good"
    ELSE IF score >= 60 THEN "warning"
    ELSE "poor"

DefaultRecommendations == <<"Improve this metric for better SEO performance">>

RecommendationTable ==
    [n \in {"Page Speed", "Mobile Optimization", "Meta Tags",
            "Heading Structure", "Image Optimization", "Internal Linking",
            "SSL Certificate", "Social Media Tags", "Content Quality",
            "URL Structure", "Robots.txt", "XML Sitemap"} |->
        CASE n = "Page Speed" ->
               <<"Optimize images by compressing them",
                 "Enable browser caching",
                 "Minify CSS and JavaScript files",
                 "Use a Content Delivery Network (CDN)",
                 "Remove unused plugins and scripts">>
          [] n = "Mobile Optimization" ->
               <<"Ensure responsive design works on all devices",
                 "Test touch targets are large enough",
                 "Optimize font sizes for mobile",
                 "Check viewport meta tag",
                 "Test mobile usability">>
          [] n = "Meta Tags" ->
               <<"Add unique title tags to all pages",
                 "Write compelling meta descriptions",
                 "Include relevant keywords naturally",
                 "Keep titles under 60 characters",
                 "Keep descriptions under 160 characters">>
          [] n = "Heading Structure" ->
               <<"Use only one H1 tag per page",
                 "Maintain logical heading hierarchy",
                 "Include keywords in headings",
                 "Make headings descriptive and clear",
                 "Use proper heading tags, not just styling">>
          [] n = "Image Optimization" ->
               <<"Compress images without losing quality",
                 "Use appropriate image formats (WebP, JPEG, PNG)",
                 "Add alt text to all images",
                 "Implement lazy loading",
                 "Use descriptive filenames">>
          [] n = "Internal Linking" ->
               <<"Create logical navigation structure",
                 "Link related content together",
                 "Use descriptive anchor text",
                 "Include breadcrumb navigation",
                 "Add contextual internal links">>
          [] n = "SSL Certificate" ->
               <<"Install SSL certificate",
                 "Redirect HTTP to HTTPS",
                 "Update internal links to HTTPS",
                 "Fix mixed content issues",
                 "Renew certificate before expiration">>
          [] n = "Social Media Tags" ->
               <<"Add Open Graph meta tags",
                 "Include Twitter Card tags",
                 "Set proper image dimensions",
                 "Write compelling social descriptions",
                 "Test social media previews">>
          [] n = "Content Quality" ->
               <<"Write original, valuable content",
                 "Use proper keyword density",
                 "Improve content readability",
                 "Add relevant internal links",
                 "Update content regularly">>
          [] n = "URL Structure" ->
               <<"Use descriptive, keyword-rich URLs",
                 "Keep URLs short and clean",
                 "Use hyphens to separate words",
                 "Avoid special characters",
                 "Include relevant keywords">>
          [] n = "Robots.txt" ->
               <<"Create robots.txt file",
                 "Allow important pages to be crawled",
                 "Block duplicate or low-quality pages",
                 "Reference your sitemap location",
                 "Test robots.txt with Google Search Console">>
          [] n = "XML Sitemap" ->
               <<"Create XML sitemap",
                 "Submit sitemap to Google Search Console",
                 "Keep sitemap updated",
                 "Include all important pages",
                 "Use proper sitemap format">>]

generateRecommendations_byScore(metricName, score) ==
    IF metricName \in DOMAIN RecommendationTable /\ score < 60
    THEN RecommendationTable[metricName]
    ELSE DefaultRecommendations

generateRecommendations(metricName, score) ==
    IF metricName \in DOMAIN RecommendationTable
    THEN RecommendationTable[metricName]
    ELSE DefaultRecommendations


\* A piece of display text: a literal, or a template with its interpolated value.
Text(t) == <<t>>
Issue(t, v) == <<t, v>>
Separator == Text("; ")

\* Array.prototype.join('; ') over a list of text pieces.
RECURSIVE Join(_)
Join(pieces) ==
    IF Len(pieces) = 0 THEN <<>>
    ELSE IF Len(pieces) = 1 THEN <<pieces[1]>>
    ELSE <<pieces[1], Separator>> \o Join(Tail(pieces))

\* let score = 100; let issues = [];
Start == [score |-> 100, issues |-> <<>>]

Penalty_double(st, d, issue) ==
    [score |-> st.score - 2 * d, issues |-> Append(st.issues, issue)]

Penalty_adds(st, d, issue) ==
    [score |-> st.score + d, issues |-> Append(st.issues, issue)]

\* score -= d; issues.push(issue);
Penalty(st, d, issue) ==
    [score |-> st.score - d, issues |-> Append(st.issues, issue)]

When_noDeduction(cond, st, d, issue) ==
    IF cond THEN [score |-> st.score, issues |-> Append(st.issues, issue)] ELSE st

\* if (cond) { score -= d; issues.push(issue); }
When(cond, st, d, issue) == IF cond THEN Penalty(st, d, issue) ELSE st

Finish_reversedDetails(st, noIssues, data, metricName) ==
    LET score == Max(st.score, 0)
        n == Len(st.issues)
    IN [score |-> score,
        details |-> IF n > 0 THEN Join([i \in 1..n |-> st.issues[n + 1 - i]])
                    ELSE <<Text(noIssues)>>,
        specificData |-> data,
        recommendations |-> generateRecommendations(metricName, score)]

\* score = Math.max(score, 0); return { score, details, specificData, recommendations }
Finish(st, noIssues, data, metricName) ==
    LET score == Max(st.score, 0) IN
    [score |-> score,
     details |-> IF Len(st.issues) > 0 THEN Join(st.issues) ELSE <<Text(noIssues)>>,
     specificData |-> data,
     recommendations |-> generateRecommendations(metricName, score)]

\* Values of Math.floor(Math.random() * n) + lo kept for the model: the ends
\* of the range and both sides of every threshold the rules compare with.
PageSpeedInputs ==
    [loadTime : {500, 1500, 1501, 2000, 2001, 3499},
     totalSize : {500, 1500, 1501, 2499},
     imageSize : {200, 500, 501, 999},
     cssSize : {50, 150, 151, 249},
     jsSize : {100, 200, 201, 399}]

analyzePageSpeed(m) ==
    LET s1 == IF m.loadTime > 2000
              THEN Penalty(Start, 30, Issue("load time too long", m.loadTime))
              ELSE IF m.loadTime > 1500
              THEN Penalty(Start, 15, Issue("load time slow", m.loadTime))
              ELSE Start
        s2 == When(m.totalSize > 1500, s1, 25, Issue("total size too large", m.totalSize))
        s3 == When(m.imageSize > 500, s2, 20, Issue("image size too large", m.imageSize))
        s4 == When(m.cssSize > 150, s3, 10, Issue("css too large", m.cssSize))
        s5 == When(m.jsSize > 200, s4, 15, Issue("js too large", m.jsSize))
    IN Finish(s5, "page speed is good", m, "Page Speed")

MobileInputs ==
    [hasViewport : BOOLEAN,
     touchTargets : {5, 24},
     smallTouchTargets : {0, 3, 4, 7},
     fontSize : {12, 13, 14, 19},
     hasMobileMenu : BOOLEAN]

analyzeMobileOptimization(m) ==
    LET s1 == When(~m.hasViewport, Start, 40, Text("missing viewport meta tag"))
        s2 == When(m.smallTouchTargets > 3, s1, 25,
                   Issue("touch targets too small", m.smallTouchTargets))
        s3 == When(m.fontSize < 14, s2, 20, Issue("font too small", m.fontSize))
        s4 == When(~m.hasMobileMenu, s3, 15, Text("missing mobile menu"))
    IN Finish(s4, "mobile optimization is good", m, "Mobile Optimization")

MetaTagsInputs ==
    [titleLength : {30, 60, 61, 69},
     descriptionLength : {100, 119, 120, 159},
     hasKeywords : BOOLEAN,
     hasCanonical : BOOLEAN,
     duplicateTitles : {0, 1, 2},
     titleNumber : {0, 999}]

analyzeMetaTags(m) ==
    LET s1 == IF m.titleLength < 30
              THEN Penalty(Start, 20, Issue("title too short", m.titleLength))
              ELSE IF m.titleLength > 60
              THEN Penalty(Start, 15, Issue("title too long", m.titleLength))
              ELSE Start
        s2 == IF m.descriptionLength < 120
              THEN Penalty(s1, 15, Issue("description too short", m.descriptionLength))
              ELSE IF m.descriptionLength > 160
              THEN Penalty(s1, 10, Issue("description too long", m.descriptionLength))
              ELSE s1
        s3 == When(~m.hasKeywords, s2, 5, Text("missing keywords meta tag"))
        s4 == When(~m.hasCanonical, s3, 10, Text("missing canonical tag"))
        s5 == When(m.duplicateTitles > 0, s4, 20,
                   Issue("duplicate titles", m.duplicateTitles))
        data == [titleLength |-> m.titleLength,
                 descriptionLength |-> m.descriptionLength,
                 hasKeywordMeta |-> m.hasKeywords,
                 hasCanonical |-> m.hasCanonical,
                 duplicateTitles |-> m.duplicateTitles,
                 title |-> Issue("site title", m.titleNumber),
                 description |-> Issue("description of length", m.descriptionLength)]
    IN Finish(s5, "meta tags are good", data, "Meta Tags")

HeadingInputs ==
    [h1Count : {1, 2, 3},
     h2Count : {2, 9},
     h3Count : {3, 14},
     missingHeadings : {0, 2, 3, 4},
     skippedLevels : {0, 1, 2}]

H1Texts == <<"home", "products", "services", "about us">>
H2Texts == <<"features", "technology", "cases", "solutions", "industries",
             "support", "contact", "news">>
H3Texts == <<"functions", "usage", "faq", "pricing", "process", "team",
             "history", "partners">>

analyzeHeadingStructure(m) ==
    LET s1 == When(m.h1Count > 1, Start, 30, Issue("several H1 tags", m.h1Count))
        s2 == When(m.h1Count = 0, s1, 40, Text("missing H1 tag"))
        s3 == When(m.missingHeadings > 2, s2, 20,
                   Issue("pages without heading tags", m.missingHeadings))
        s4 == When(m.skippedLevels > 1, s3, 15,
                   Issue("heading levels skipped", m.skippedLevels))
        data == [h1Count |-> m.h1Count,
                 h2Count |-> m.h2Count,
                 h3Count |-> m.h3Count,
                 missingHeadings |-> m.missingHeadings,
                 skippedLevels |-> m.skippedLevels,
                 h1Texts |-> Slice(H1Texts, m.h1Count),
                 h2Texts |-> Slice(H2Texts, m.h2Count),
                 h3Texts |-> Slice(H3Texts, m.h3Count)]
    IN Finish(s4, "heading structure is sound", data, "Heading Structure")

\* webpImages = floor(random * totalImages * 0.3) and
\* lazyLoaded = floor(random * totalImages * 0.4), with random < 1.
ImageInputs ==
    {m \in [totalImages : {5, 10, 24},
            largeImages : {1, 3, 4, 8},
            missingAlt : {0, 2, 3, 5},
            webpImages : 0..7,
            lazyLoaded : 0..9] :
        /\ m.webpImages * 10 < m.totalImages * 3
        /\ m.lazyLoaded * 10 < m.totalImages * 4}

analyzeImageOptimization(m) ==
    LET s1 == When(m.largeImages > 3, Start, 25, Issue("images too large", m.largeImages))
        s2 == When(m.missingAlt > 2, s1, 20, Issue("images without alt", m.missingAlt))
        \* webpImages < totalImages * 0.2
        s3 == When(m.webpImages * 10 < m.totalImages * 2, s2, 15,
                   Issue("few WebP images", m.webpImages))
        \* lazyLoaded < totalImages * 0.3
        s4 == When(m.lazyLoaded * 10 < m.totalImages * 3, s3, 10,
                   Issue("few lazy loaded images", m.lazyLoaded))
    IN Finish(s4, "image optimization is good", m, "Image Optimization")

LinkingInputs ==
    [totalLinks : {10, 19, 20, 59},
     brokenLinks : {0, 1, 2, 4},
     externalLinks : {5, 12, 19},
     orphanPages : {0, 3, 4, 7},
     deepLinks : {0, 5, 6, 9}]

ExternalLinksList ==
    <<"https://www.google.com/", "https://www.facebook.com/",
      "https://www.twitter.com/", "https://www.linkedin.com/",
      "https://www.github.com/", "https://www.stackoverflow.com/",
      "https://www.wikipedia.org/", "https://www.youtube.com/",
      "https://www.instagram.com/", "https://www.reddit.com/",
      "https://www.medium.com/", "https://www.quora.com/">>

analyzeInternalLinking(m) ==
    LET s1 == When(m.brokenLinks > 1, Start, 30, Issue("broken links", m.brokenLinks))
        s2 == When(m.orphanPages > 3, s1, 25, Issue("orphan pages", m.orphanPages))
        s3 == When(m.totalLinks < 20, s2, 20, Issue("few internal links", m.totalLinks))
        s4 == When(m.deepLinks > 5, s3, 15, Issue("links too deep", m.deepLinks))
        data == [totalLinks |-> m.totalLinks,
                 brokenLinks |-> m.brokenLinks,
                 externalLinks |-> m.externalLinks,
                 orphanPages |-> m.orphanPages,
                 deepLinks |-> m.deepLinks,
                 externalLinksList |-> Slice(ExternalLinksList, m.externalLinks)]
    IN Finish(s4, "internal linking is good", data, "Internal Linking")

SSLInputs ==
    [hasSSL : BOOLEAN,
     daysToExpire : {1, 29, 30, 365},
     hasHSTS : BOOLEAN,
     mixedContent : {0, 1, 2}]

analyzeSSLCertificate(m) ==
    LET s0 == [score |-> 0, issues |-> <<Text("site does not use HTTPS")>>]
        s1 == When(m.daysToExpire < 30, Start, 20,
                   Issue("certificate expires in days", m.daysToExpire))
        s2 == When(~m.hasHSTS, s1, 15, Text("missing HSTS header"))
        s3 == When(m.mixedContent > 0, s2, 25, Issue("mixed content", m.mixedContent))
    IN Finish(IF ~m.hasSSL THEN s0 ELSE s3, "SSL configuration is secure", m,
              "SSL Certificate")

SocialInputs ==
    [hasOpenGraph : BOOLEAN, hasTwitterCards : BOOLEAN,
     hasImage : BOOLEAN, hasDescription : BOOLEAN]

analyzeSocialMediaTags(m) ==
    LET s1 == When(~m.hasOpenGraph, Start, 30, Text("missing Open Graph tags"))
        s2 == When(~m.hasTwitterCards, s1, 25, Text("missing Twitter Card tags"))
        s3 == When(~m.hasImage, s2, 20, Text("missing social image"))
        s4 == When(~m.hasDescription, s3, 15, Text("missing social description"))
    IN Finish(s4, "social media tags are complete", m, "Social Media Tags")

ContentInputs ==
    [wordCount : {300, 499, 500, 2299},
     keywordDensity : {1, 2, 3},
     readabilityScore : {40, 49, 50, 79},
     duplicateContent : {0, 1, 2},
     internalLinks : {2, 3, 11}]

analyzeContentQuality(m) ==
    LET s1 == When(m.wordCount < 500, Start, 25, Issue("content too short", m.wordCount))
        s2 == When(m.keywordDensity < 1 \/ m.keywordDensity > 3, s1, 20,
                   Issue("keyword density off", m.keywordDensity))
        s3 == When(m.readabilityScore < 50, s2, 15,
                   Issue("poor readability", m.readabilityScore))
        s4 == When(m.duplicateContent > 1, s3, 30,
                   Issue("duplicate content", m.duplicateContent))
        s5 == When(m.internalLinks < 3, s4, 10,
                   Issue("few internal links", m.internalLinks))
    IN Finish(s5, "content quality is good", m, "Content Quality")

URLInputs ==
    [urlLength : {20, 60, 61, 69},
     hasKeywords : BOOLEAN,
     hasSpecialChars : BOOLEAN,
     hasNumbers : BOOLEAN,
     depth : {1, 3, 4}]

analyzeURLStructure(m) ==
    LET s1 == When(m.urlLength > 60, Start, 20, Issue("URL too long", m.urlLength))
        s2 == When(~m.hasKeywords, s1, 25, Text("URL lacks keywords"))
        s3 == When(m.hasSpecialChars, s2, 15, Text("URL has special characters"))
        s4 == When(m.depth > 3, s3, 10, Issue("URL too deep", m.depth))
    IN Finish(s4, "URL structure is good", m, "URL Structure")

RobotsInputs ==
    [hasRobotsTxt : BOOLEAN, blocksImportantPages : BOOLEAN,
     hasSitemapReference : BOOLEAN, blocksCSS : BOOLEAN]

analyzeRobotsTxt(m) ==
    LET s0 == Penalty(Start, 40, Text("missing robots.txt"))
        s1 == When(m.blocksImportantPages, Start, 30,
                   Text("robots.txt blocks important pages"))
        s2 == When(~m.hasSitemapReference, s1, 15,
                   Text("robots.txt lacks sitemap reference"))
        s3 == When(m.blocksCSS, s2, 10, Text("robots.txt blocks CSS"))
    IN Finish(IF ~m.hasRobotsTxt THEN s0 ELSE s3, "robots.txt is correct", m,
              "Robots.txt")

SitemapInputs ==
    [hasSitemap : BOOLEAN,
     totalPages : {10, 109},
     lastModified : {1, 7, 8, 30},
     hasImages : BOOLEAN,
     submittedToGoogle : BOOLEAN]

analyzeSitemap(m) ==
    LET s0 == Penalty(Start, 50, Text("missing XML sitemap"))
        s1 == When(m.lastModified > 7, Start, 20,
                   Issue("sitemap not updated for days", m.lastModified))
        s2 == When(~m.hasImages, s1, 10, Text("sitemap lacks image information"))
        s3 == When(~m.submittedToGoogle, s2, 15,
                   Text("sitemap not submitted to Google Search Console"))
    IN Finish(IF ~m.hasSitemap THEN s0 ELSE s3, "XML sitemap is good", m,
              "XML Sitemap")

\* What the default branch of the switch returns.
FallbackAnalysis ==
    [score |-> 50, status |-> "poor", recommendations |-> <<>>,
     details |-> <<>>, specificData |-> <<>>]

\* The random draws the evaluator of a metric key makes.
InputsOf(metricKey) ==
    CASE metricKey = "pageSpeed"          -> PageSpeedInputs
      [] metricKey = "mobileOptimization" -> MobileInputs
      [] metricKey = "metaTags"           -> MetaTagsInputs
      [] metricKey = "headingStructure"   -> HeadingInputs
      [] metricKey = "imageOptimization"  -> ImageInputs
      [] metricKey = "internalLinking"    -> LinkingInputs
      [] metricKey = "sslCertificate"     -> SSLInputs
      [] metricKey = "socialMediaTags"    -> SocialInputs
      [] metricKey = "contentQuality"     -> ContentInputs
      [] metricKey = "urlStructure"       -> URLInputs
      [] metricKey = "robotsTxt"          -> RobotsInputs
      [] metricKey = "sitemap"            -> SitemapInputs
      [] OTHER                            -> {<<>>}

generateDetailedAnalysis_defaultScoreZero(metricKey, m) ==
    CASE metricKey = "pageSpeed"          -> analyzePageSpeed(m)
      [] metricKey = "mobileOptimization" -> analyzeMobileOptimization(m)
      [] metricKey = "metaTags"           -> analyzeMetaTags(m)
      [] metricKey = "headingStructure"   -> analyzeHeadingStructure(m)
      [] metricKey = "imageOptimization"  -> analyzeImageOptimization(m)
      [] metricKey = "internalLinking"    -> analyzeInternalLinking(m)
      [] metricKey = "sslCertificate"     -> analyzeSSLCertificate(m)
      [] metricKey = "socialMediaTags"    -> analyzeSocialMediaTags(m)
      [] metricKey = "contentQuality"     -> analyzeContentQuality(m)
      [] metricKey = "urlStructure"       -> analyzeURLStructure(m)
      [] metricKey = "robotsTxt"          -> analyzeRobotsTxt(m)
      [] metricKey = "sitemap"            -> analyzeSitemap(m)
      [] OTHER -> [FallbackAnalysis EXCEPT !.score = 0,
                     !.recommendations = DefaultRecommendations]

generateDetailedAnalysis(metricKey, m) ==
    CASE metricKey = "pageSpeed"          -> analyzePageSpeed(m)
      [] metricKey = "mobileOptimization" -> analyzeMobileOptimization(m)
      [] metricKey = "metaTags"           -> analyzeMetaTags(m)
      [] metricKey = "headingStructure"   -> analyzeHeadingStructure(m)
      [] metricKey = "imageOptimization"  -> analyzeImageOptimization(m)
      [] metricKey = "internalLinking"    -> analyzeInternalLinking(m)
      [] metricKey = "sslCertificate"     -> analyzeSSLCertificate(m)
      [] metricKey = "socialMediaTags"    -> analyzeSocialMediaTags(m)
      [] metricKey = "contentQuality"     -> analyzeContentQuality(m)
      [] metricKey = "urlStructure"       -> analyzeURLStructure(m)
      [] metricKey = "robotsTxt"          -> analyzeRobotsTxt(m)
      [] metricKey = "sitemap"            -> analyzeSitemap(m)
      [] OTHER                            -> FallbackAnalysis

\* A metric object that is no value of this.metrics.
ForeignMetric == [name |-> "Backlinks", weight |-> 5]

Undefined == "undefined"

\* Object.keys(this.metrics).find(key => this.metrics[key] === metric)
KeyOfMetric(table, metric) ==
    LET hits == {i \in 1..Len(KeyOrder) : table[KeyOrder[i]] = metric} IN
    IF hits = {} THEN Undefined
    ELSE KeyOrder[CHOOSE i \in hits : \A j \in hits : i <= j]

generateMetricResult(table, metric, m) ==
    LET metricKey == KeyOfMetric(table, metric)
        detailedAnalysis == generateDetailedAnalysis(metricKey, m)
    IN [score |-> detailedAnalysis.score,
        status |-> getScoreStatus(detailedAnalysis.score),
        recommendations |-> detailedAnalysis.recommendations,
        details |-> detailedAnalysis.details,
        specificData |-> detailedAnalysis.specificData]

\* The specificData keys whose value generateSpecificDataHtml puts into the
\* page for a metric key. The keys content quality reads only behind a
\* truthiness test (extractedKeywords, topKeywords, keywordSources) are left
\* out: a missing one renders nothing.
SpecificDataKeysRead(metricKey) ==
    CASE metricKey = "pageSpeed" ->
           {"loadTime", "totalSize", "imageSize", "cssSize", "jsSize"}
      [] metricKey = "mobileOptimization" ->
           {"hasViewport", "touchTargets", "smallTouchTargets", "fontSize",
            "hasMobileMenu"}
      [] metricKey = "metaTags" ->
           {"title", "titleLength", "description", "descriptionLength",
            "hasKeywordMeta", "hasCanonical", "duplicateTitles"}
      [] metricKey = "headingStructure" ->
           {"h1Count", "h2Count", "h3Count", "missingHeadings", "skippedLevels",
            "h1Texts", "h2Texts", "h3Texts"}
      [] metricKey = "imageOptimization" ->
           {"totalImages", "largeImages", "missingAlt", "webpImages", "lazyLoaded"}
      [] metricKey = "internalLinking" ->
           {"totalLinks", "brokenLinks", "externalLinks", "orphanPages",
            "deepLinks", "externalLinksList"}
      [] metricKey = "sslCertificate" ->
           {"hasSSL", "daysToExpire", "hasHSTS", "mixedContent"}
      [] metricKey = "socialMediaTags" ->
           {"hasOpenGraph", "hasTwitterCards", "hasOGImage", "hasOGDescription"}
      [] metricKey = "contentQuality" ->
           {"wordCount", "keywordDensity", "readabilityScore", "duplicateContent",
            "internalLinks"}
      [] metricKey = "urlStructure" ->
           {"urlLength", "hasKeyword", "specialChars", "urlDepth"}
      [] metricKey = "robotsTxt" ->
           {"hasRobotsTxt", "blockingImportantPages", "hasSitemapReference",
            "blockingCSS"}
      [] metricKey = "sitemap" ->
           {"hasSitemap", "totalPages", "lastModified", "includesImages"}
      [] OTHER -> {}

\* The specificData keys extractKeyInfo reads for a metric name.
KeyInfoKeysRead(metricName) ==
    CASE metricName = "Page Speed" -> {"totalSize", "totalImages", "largeImages"}
      [] metricName = "Mobile Optimization" ->
           {"hasViewport", "fontSize", "smallTouchTargets"}
      [] metricName = "Meta Tags" ->
           {"titleLength", "descriptionLength", "duplicateTitles"}
      [] metricName = "Heading Structure" -> {"h1Count", "h2Count", "skippedLevels"}
      [] metricName = "Image Optimization" ->
           {"totalImages", "missingAlt", "webpImages"}
      [] metricName = "Internal Linking" ->
           {"totalLinks", "brokenLinks", "orphanPages"}
      [] metricName = "SSL Certificate" -> {"hasSSL", "hasHSTS", "mixedContent"}
      [] metricName = "Content Quality" ->
           {"wordCount", "keywordDensity", "internalLinks"}
      [] metricName = "URL Structure" -> {"urlLength", "urlDepth", "hasKeyword"}
      [] metricName = "Robots.txt" ->
           {"hasRobotsTxt", "hasSitemapReference", "blockingCSS"}
      [] metricName = "XML Sitemap" -> {"hasSitemap", "totalPages", "includesImages"}
      [] OTHER -> {}

\* Sum of f[k] over the keys k of a finite set.
RECURSIVE SumOver(_, _)
SumOver(keys, f) ==
    IF keys = {} THEN 0
    ELSE LET k == CHOOSE x \in keys : TRUE
         IN f[k] + SumOver(keys \ {k}, f)

NaN == "NaN"

\* Math.round of the quotient a / b of two non-negative integers, b > 0.
RoundDiv(a, b) == (2 * a + b) \div (2 * b)

calculateTotalScore_addsWeight(table, results) ==
    LET keys == DOMAIN results
        weightedSum == SumOver(keys, [k \in keys |-> results[k].score + table[k].weight])
        totalWeight == SumOver(keys, [k \in keys |-> table[k].weight])
    IN IF totalWeight = 0
       THEN [score |-> NaN, status |-> "poor",
             weightedSum |-> weightedSum, totalWeight |-> totalWeight]
       ELSE [score |-> RoundDiv(weightedSum, totalWeight),
             status |-> getScoreStatus(RoundDiv(weightedSum, totalWeight)),
             weightedSum |-> weightedSum, totalWeight |-> totalWeight]

\* For an empty mapping the quotient is 0 / 0 = NaN, and every comparison of
\* getScoreStatus with NaN is false, which leaves 'poor'.
calculateTotalScore(table, results) ==
    LET keys == DOMAIN results
        weightedSum == SumOver(keys, [k \in keys |-> results[k].score * table[k].weight])
        totalWeight == SumOver(keys, [k \in keys |-> table[k].weight])
    IN IF totalWeight = 0
       THEN [score |-> NaN, status |-> "poor",
             weightedSum |-> weightedSum, totalWeight |-> totalWeight]
       ELSE [score |-> RoundDiv(weightedSum, totalWeight),
             status |-> getScoreStatus(RoundDiv(weightedSum, totalWeight)),
             weightedSum |-> weightedSum, totalWeight |-> totalWeight]

-----------------------------------------------------------------------------
(* The metric evaluators: generateMetricResult applied to a metric.         *)

MetricsInit == metrics = setupMetrics

EvalIdle == evalMetric = <<>> /\ evalDraws = <<>> /\ evalResult = <<>>

AggIdle == aggResults = [k \in {} |-> 0] /\ aggTotal = <<>> /\ aggIssues = <<>>

RunsIdle == runs = <<>>

ProxyIdle == reqs = <<>>

\* The metrics generateMetricResult may be handed: the twelve values of
\* this.metrics and an object that is none of them.
MetricArguments == {setupMetrics[k] : k \in MetricKeys} \cup {ForeignMetric}

EvalInit ==
    /\ evalMetric \in {<<metric>> : metric \in MetricArguments}
    /\ evalDraws \in InputsOf(KeyOfMetric(setupMetrics, evalMetric[1]))
    /\ evalResult = <<>>

\* generateMetricResult(metric, url)
GenerateMetricResult ==
    /\ evalResult' = <<generateMetricResult(metrics, evalMetric[1], evalDraws)>>
    /\ UNCHANGED <<metrics, evalMetric, evalDraws, aggVars, uiVars, runs, reqs>>

NextEval == GenerateMetricResult

-----------------------------------------------------------------------------
(* The aggregation: calculateTotalScore applied to a results mapping.       *)

AggScores == {0, 50, 74, 75, 100}
BaseScores == {0, 50, 100}

\* Results mappings: every metric at a base score, two metrics at scores of
\* their own; all twelve metrics present, or only the two, or none.
AggInputs ==
    {[k \in present |->
        [score |-> IF k = KeyOrder[i1] THEN s1
                   ELSE IF k = KeyOrder[i2] THEN s2 ELSE b]] :
        <<b, i1, s1, i2, s2, present>> \in
          {t \in BaseScores \X (1..12) \X AggScores \X (1..12) \X AggScores
                 \X {MetricKeys, {}, {"pageSpeed", "sitemap"}} :
              /\ t[2] < t[4]
              /\ t[6] = {"pageSpeed", "sitemap"} => (t[2] = 1 /\ t[4] = 12 /\ t[1] = 0)
              /\ t[6] = {} => (t[2] = 1 /\ t[4] = 12 /\ t[1] = 0 /\ t[3] = 0 /\ t[5] = 0)}}

AggInit == aggResults \in AggInputs /\ aggTotal = <<>> /\ aggIssues = <<>>

\* Calls of calculateTotalScore on one results mapping that are followed.
MaxCalls == 2

CalculateTotalScore_scalesInPlace ==
    /\ Len(aggTotal) < MaxCalls
    /\ aggTotal' = Append(aggTotal, calculateTotalScore(metrics, aggResults))
    /\ aggResults' = [k \in DOMAIN aggResults |->
                        [score |-> aggResults[k].score \div 2]]
    /\ UNCHANGED <<metrics, aggIssues, evalVars, uiVars, runs, reqs>>

\* calculateTotalScore(results): reads results and this.metrics, writes its
\* locals only, and returns {score, status, weightedSum, totalWeight}.
CalculateTotalScore ==
    /\ Len(aggTotal) < MaxCalls
    /\ aggTotal' = Append(aggTotal, calculateTotalScore(metrics, aggResults))
    /\ UNCHANGED <<metrics, aggResults, aggIssues, evalVars, uiVars, runs, reqs>>

NextAgg == CalculateTotalScore

-----------------------------------------------------------------------------
(* The analysis run: analyzeWebsite, performAnalysis and displayResults.    *)

\* Pieces of the text of the URL field: a blank, a scheme prefix, a character
\* a host name may hold and one it may not.
Blank == " "
Https == "https://"
Http == "http://"
HostChar == "a"
BadChar == "["

\* String.prototype.trim
RECURSIVE TrimStart(_)
TrimStart(s) ==
    IF Len(s) > 0 /\ Head(s) = Blank THEN TrimStart(Tail(s)) ELSE s

RECURSIVE TrimEnd(_)
TrimEnd(s) ==
    IF Len(s) > 0 /\ s[Len(s)] = Blank THEN TrimEnd(SubSeq(s, 1, Len(s) - 1)) ELSE s

Trim(s) == TrimEnd(TrimStart(s))

\* string.startsWith('http://') || string.startsWith('https://')
HasScheme(s) == Len(s) > 0 /\ Head(s) \in {Http, Https}

\* if (!url.startsWith('http://') && !url.startsWith('https://')) url = 'https://' + url
AddScheme(s) == IF HasScheme(s) THEN s ELSE <<Https>> \o s

\* new URL(string) of the platform returns for a scheme followed by a
\* non-empty host without forbidden characters, and throws otherwise.
URLParses(s) ==
    /\ HasScheme(s)
    /\ Len(s) >= 2
    /\ \A i \in 2..Len(s) : s[i] \notin {Blank, BadChar}

isValidUrl(string) == URLParses(AddScheme(string))

RejectsInput_emptyOnly(url) == url = <<>>

\* analyzeWebsite returns early: if (!url) ... if (!this.isValidUrl(url)) ...
RejectsInput(url) == url = <<>> \/ ~isValidUrl(url)

\* What the user may have typed into the field before clicking.
UrlInputs ==
    {<<>>, <<Blank, Blank>>, <<HostChar>>, <<Blank, HostChar, Blank>>,
     <<Http, HostChar>>, <<Https>>, <<HostChar, Blank, HostChar>>,
     <<BadChar>>}

\* The metric results the backend puts into a report.
MetricData ==
    [score |-> 80, status |-> "good",
     details |-> <<Text("first issue"), Text("second issue")>>,
     recommendations |-> <<"first advice">>,
     specificData |-> <<>>]

ReportFull ==
    [results |-> [k \in MetricKeys |-> MetricData],
     totalScore |-> 96, status |-> "excellent", websiteType |-> "content"]

ReportPartial ==
    [results |-> [k \in MetricKeys \ {"sitemap"} |-> MetricData],
     totalScore |-> 88, status |-> "good", websiteType |-> "content"]

\* A report with a result under a key that this.metrics does not have.
ReportForeign ==
    [results |-> [k \in {"pageSpeed", "backlinks"} |-> MetricData],
     totalScore |-> 80, status |-> "good", websiteType |-> "content"]

\* The events of the stream: {type, message?, data?}.
Progress(msg) == [type |-> "progress", message |-> <<msg>>, data |-> <<>>]
Complete(report) == [type |-> "complete", message |-> <<>>, data |-> <<report>>]
ErrorEvent(msg) == [type |-> "error", message |-> <<msg>>, data |-> <<>>]

Events ==
    {Progress("step one"), Progress("step two"), Complete(ReportFull),
     Complete(ReportPartial), ErrorEvent("page not reachable")}

MaxEvents == 3

EventSeqs == UNION {[1..n -> Events] : n \in 0..MaxEvents}

\* The characters of the response body: the 'data: ' prefix, the JSON text
\* of an event, and the newline.
PrefixChar == [c |-> "data: ", ev |-> <<>>]
JsonChar(ev) == [c |-> "json", ev |-> <<ev>>]
NL == [c |-> "\n", ev |-> <<>>]

\* The server writes each event as 'data: <json>\n\n'.
RECURSIVE Encode(_)
Encode(evs) ==
    IF Len(evs) = 0 THEN <<>>
    ELSE <<PrefixChar, JsonChar(Head(evs)), NL, NL>> \o Encode(Tail(evs))

\* String.prototype.split('\n\n')
RECURSIVE Split(_)
Split(text) ==
    LET hits == {i \in 1..(Len(text) - 1) : text[i] = NL /\ text[i + 1] = NL} IN
    IF hits = {} THEN <<text>>
    ELSE LET i == CHOOSE x \in hits : \A y \in hits : x <= y
         IN <<SubSeq(text, 1, i - 1)>> \o Split(SubSeq(text, i + 2, Len(text)))

\* JSON.parse(line.slice(6)): the event, or nothing when it throws.
JSONParse(text) ==
    IF Len(text) = 1 /\ text[1].c = "json" THEN text[1].ev ELSE <<>>

HandleEvent_progressClearsResult(st, data) ==
    LET seen == [st EXCEPT !.processed = Append(@, data)] IN
    IF data.type = "progress"
    THEN [seen EXCEPT !.msgs = Append(@, data.message), !.result = data.data]
    ELSE IF data.type = "complete"
    THEN [seen EXCEPT !.result = data.data]
    ELSE IF data.type = "error"
    THEN [seen EXCEPT !.thrown = data.message]
    ELSE seen

\* The dispatch on data.type; addProgressMessage appends one child.
HandleEvent(st, data) ==
    LET seen == [st EXCEPT !.processed = Append(@, data)] IN
    IF data.type = "progress"
    THEN [seen EXCEPT !.msgs = Append(@, data.message)]
    ELSE IF data.type = "complete"
    THEN [seen EXCEPT !.result = data.data]
    ELSE IF data.type = "error"
    THEN [seen EXCEPT !.thrown = data.message]
    ELSE seen

\* if (line.startsWith('data: ')) { const data = JSON.parse(line.slice(6)); ... }
ProcessLine(st, line) ==
    IF Len(line) > 0 /\ Head(line) = PrefixChar
    THEN LET parsed == JSONParse(Tail(line)) IN
         IF parsed = <<>> THEN [st EXCEPT !.thrown = <<"SyntaxError">>]
         ELSE HandleEvent(st, parsed[1])
    ELSE st

\* for (const line of lines) ...: left by the first throw
RECURSIVE ProcessLines(_, _)
ProcessLines(st, lines) ==
    IF Len(lines) = 0 \/ st.thrown # <<>> THEN st
    ELSE ProcessLines(ProcessLine(st, Head(lines)), Tail(lines))

\* The conversion of the API response into the mapping displayResults takes.
ConvertReport(report) ==
    [k \in DOMAIN report.results \cup {"_totalScore"} |->
        IF k = "_totalScore"
        THEN [score |-> report.totalScore, status |-> report.status,
              websiteType |-> report.websiteType]
        ELSE [score |-> report.results[k].score,
              status |-> report.results[k].status,
              details |-> Join(report.results[k].details),
              recommendations |-> report.results[k].recommendations,
              specificData |-> report.results[k].specificData]]

Returned(results) == [kind |-> "returned", message |-> <<>>, results |-> <<results>>]
Thrown(msg) == [kind |-> "thrown", message |-> msg, results |-> <<>>]

\* The keys of Object.entries(results) that get a card: all but '_totalScore'.
CardKeys(results) == SelectSeq(KeyOrder, LAMBDA k : k \in DOMAIN results)

displayResults_recomputes(table, results) ==
    LET own == calculateTotalScore(table,
                   [k \in DOMAIN results \ {"_totalScore"} |-> results[k]])
    IN [title |-> [score |-> own.score, status |-> own.status],
        summaryCards |-> CardKeys(results),
        metricCards |-> CardKeys(results)]

\* displayResults: the total of the title, the summary cards, the metric cards.
displayResults(table, results) ==
    LET totalScore == IF "_totalScore" \in DOMAIN results
                      THEN results["_totalScore"]
                      ELSE calculateTotalScore(table, results)
    IN [title |-> [score |-> totalScore.score, status |-> totalScore.status],
        summaryCards |-> CardKeys(results),
        metricCards |-> CardKeys(results)]

\* createSummaryCard reads metric.name of this.metrics[key].
DisplayThrows(results) == \E k \in DOMAIN results \ {"_totalScore"} : k \notin MetricKeys

showLoading ==
    /\ progressMessages' = <<>>
    /\ overlayHidden' = FALSE
    /\ btnDisabled' = TRUE

hideLoading ==
    /\ overlayHidden' = TRUE
    /\ btnDisabled' = FALSE

UIInit ==
    /\ urlField = <<>>
    /\ lastAlert = <<>>
    /\ overlayHidden = TRUE
    /\ btnDisabled = FALSE
    /\ progressMessages = <<>>
    /\ pc = "idle"
    /\ reqUrl = <<>>
    /\ wire = <<>>
    /\ events = <<>>
    /\ lostTail = 0
    /\ buffer = <<>>
    /\ result = <<>>
    /\ processed = <<>>
    /\ outcome = <<>>
    /\ displayed = <<>>

\* catch (error) { alert(...) } finally { this.hideLoading() }
RunFails(msg) ==
    /\ outcome' = <<Thrown(msg)>>
    /\ wire' = <<>>
    /\ buffer' = <<>>
    /\ result' = <<>>
    /\ lastAlert' = <<"analysis failed, please retry. Error: ", msg>>
    /\ hideLoading
    /\ pc' = "idle"
    /\ UNCHANGED displayed

\* The click on the button: analyzeWebsite up to its await of fetch. The
\* variables that describe the run of a call start empty with every call.
AnalyzeWebsite ==
    /\ pc = "idle"
    /\ ~btnDisabled
    /\ \E typed \in UrlInputs :
        LET url == Trim(typed) IN
        /\ urlField' = typed
        /\ IF url = <<>>
           THEN /\ lastAlert' = <<"Please enter a website URL">>
                /\ reqUrl' = <<>>
                /\ UNCHANGED <<overlayHidden, btnDisabled, progressMessages, pc>>
           ELSE IF RejectsInput(url)
           THEN /\ lastAlert' = <<"Please enter a valid URL">>
                /\ reqUrl' = <<>>
                /\ UNCHANGED <<overlayHidden, btnDisabled, progressMessages, pc>>
           ELSE /\ showLoading
                /\ reqUrl' = AddScheme(url)
                /\ lastAlert' = <<>>
                /\ pc' = "fetching"
    /\ wire' = <<>>
    /\ events' = <<>>
    /\ lostTail' = 0
    /\ buffer' = <<>>
    /\ result' = <<>>
    /\ processed' = <<>>
    /\ outcome' = <<>>
    /\ UNCHANGED <<metrics, evalVars, aggVars, runs, reqs, displayed>>

\* fetch rejects, or the response is not ok.
FetchFails ==
    /\ pc = "fetching"
    /\ \E msg \in {<<"Failed to fetch">>, <<"analysis request failed">>} :
         RunFails(msg)
    /\ UNCHANGED <<metrics, evalVars, aggVars, runs, reqs, urlField, progressMessages,
                   reqUrl, events, lostTail, processed>>

\* The response is ok: the server has written a stream of events, the last
\* of which may have lost its blank line.
FetchResponds ==
    /\ pc = "fetching"
    /\ \E evs \in EventSeqs, cut \in {0, 2} :
        /\ cut <= Len(Encode(evs))
        /\ events' = evs
        /\ lostTail' = cut
        /\ wire' = SubSeq(Encode(evs), 1, Len(Encode(evs)) - cut)
    /\ pc' = "reading"
    /\ UNCHANGED <<metrics, evalVars, aggVars, runs, reqs, urlField, lastAlert,
                   overlayHidden, btnDisabled, progressMessages, reqUrl, buffer,
                   result, processed, outcome, displayed>>

ReadChunk_dropsBuffer ==
    /\ pc = "reading"
    /\ \E n \in 1..Len(wire) :
        LET text == SubSeq(wire, 1, n)
            lines == Split(text)
            st == ProcessLines([result |-> result, msgs |-> progressMessages,
                                processed |-> processed, thrown |-> <<>>],
                               SubSeq(lines, 1, Len(lines) - 1))
        IN /\ progressMessages' = st.msgs
           /\ processed' = st.processed
           /\ IF st.thrown # <<>>
              THEN RunFails(st.thrown)
              ELSE /\ wire' = SubSeq(wire, n + 1, Len(wire))
                   /\ buffer' = lines[Len(lines)]
                   /\ result' = st.result
                   /\ UNCHANGED <<pc, outcome, lastAlert, overlayHidden,
                                   btnDisabled, displayed>>
    /\ UNCHANGED <<metrics, evalVars, aggVars, runs, reqs, urlField, reqUrl, events,
                   lostTail>>

\* reader.read() resolves with a chunk: one pass of the while loop.
ReadChunk ==
    /\ pc = "reading"
    /\ \E n \in 1..Len(wire) :
        LET text == buffer \o SubSeq(wire, 1, n)
            lines == Split(text)
            st == ProcessLines([result |-> result, msgs |-> progressMessages,
                                processed |-> processed, thrown |-> <<>>],
                               SubSeq(lines, 1, Len(lines) - 1))
        IN /\ progressMessages' = st.msgs
           /\ processed' = st.processed
           /\ IF st.thrown # <<>>
              THEN RunFails(st.thrown)
              ELSE /\ wire' = SubSeq(wire, n + 1, Len(wire))
                   /\ buffer' = lines[Len(lines)]
                   /\ result' = st.result
                   /\ UNCHANGED <<pc, outcome, lastAlert, overlayHidden,
                                   btnDisabled, displayed>>
    /\ UNCHANGED <<metrics, evalVars, aggVars, runs, reqs, urlField, reqUrl, events,
                   lostTail>>

\* reader.read() rejects: the connection broke.
ReadFails ==
    /\ pc = "reading"
    /\ RunFails(<<"network error">>)
    /\ UNCHANGED <<metrics, evalVars, aggVars, runs, reqs, urlField, progressMessages,
                   reqUrl, events, lostTail, processed>>

ReadDone_processesTail ==
    /\ pc = "reading"
    /\ wire = <<>>
    /\ LET last == ProcessLine([result |-> result, msgs |-> progressMessages,
                                processed |-> processed, thrown |-> <<>>],
                               buffer).result
       IN
       IF last = <<>>
       THEN RunFails(<<"no analysis result received">>)
       ELSE LET results == ConvertReport(last[1]) IN
            /\ outcome' = <<Returned(results)>>
            /\ wire' = <<>>
            /\ buffer' = <<>>
            /\ result' = <<>>
            /\ IF DisplayThrows(results)
               THEN /\ lastAlert' = <<"analysis failed, please retry. Error: ",
                                      <<"TypeError">>>>
                    /\ UNCHANGED displayed
               ELSE /\ displayed' = <<displayResults(metrics, results)>>
                    /\ UNCHANGED lastAlert
            /\ hideLoading
            /\ pc' = "idle"
    /\ UNCHANGED <<metrics, evalVars, aggVars, runs, reqs, urlField, progressMessages,
                   reqUrl, events, lostTail, processed>>

\* reader.read() resolves with done: the rest of performAnalysis, then
\* displayResults and hideLoading.
ReadDone ==
    /\ pc = "reading"
    /\ wire = <<>>
    /\ IF result = <<>>
       THEN RunFails(<<"no analysis result received">>)
       ELSE LET results == ConvertReport(result[1]) IN
            /\ outcome' = <<Returned(results)>>
            /\ wire' = <<>>
            /\ buffer' = <<>>
            /\ result' = <<>>
            /\ IF DisplayThrows(results)
               THEN /\ lastAlert' = <<"analysis failed, please retry. Error: ",
                                      <<"TypeError">>>>
                    /\ UNCHANGED displayed
               ELSE /\ displayed' = <<displayResults(metrics, results)>>
                    /\ UNCHANGED lastAlert
            /\ hideLoading
            /\ pc' = "idle"
    /\ UNCHANGED <<metrics, evalVars, aggVars, runs, reqs, urlField, progressMessages,
                   reqUrl, events, lostTail, processed>>

Next ==
    \/ AnalyzeWebsite
    \/ FetchFails
    \/ FetchResponds
    \/ ReadChunk
    \/ ReadFails
    \/ ReadDone

Init == MetricsInit /\ EvalIdle /\ AggIdle /\ UIInit /\ RunsIdle /\ ProxyIdle
Spec == Init /\ [][Next]_vars

InitEval == MetricsInit /\ EvalInit /\ AggIdle /\ UIInit /\ RunsIdle /\ ProxyIdle
SpecEval == InitEval /\ [][NextEval]_vars

-----------------------------------------------------------------------------
(* The issue list: collectAllIssues applied to a results mapping.           *)

getIssueSeverity_inclusive(score) ==
    IF score <= 30 THEN "critical"
    ELSE IF score <= 50 THEN "high"
    ELSE IF score <= 65 THEN "medium"
    ELSE "low"

getIssueSeverity(score) ==
    IF score < 30 THEN "critical"
    ELSE IF score < 50 THEN "high"
    ELSE IF score < 65 THEN "medium"
    ELSE "low"

extractIssueData(metricName, res, severity) ==
    [metric |-> metricName,
     score |-> res.score,
     severity |-> severity,
     details |-> res.details,
     specificData |-> res.specificData,
     recommendations |-> Slice(res.recommendations, 3)]

\* const severityOrder = { 'critical': 0, 'high': 1, 'medium': 2, 'low': 3 }
severityOrder(severity) ==
    CASE severity = "critical" -> 0
      [] severity = "high"     -> 1
      [] severity = "medium"   -> 2
      [] severity = "low"      -> 3

\* Array.prototype.sort with the comparator of collectAllIssues: a stable
\* sort, so issues of one severity keep the order they were pushed in.
RECURSIVE InsertIssue(_, _)
InsertIssue(issue, sorted) ==
    IF Len(sorted) = 0 THEN <<issue>>
    ELSE IF severityOrder(Head(sorted).severity) - severityOrder(issue.severity) <= 0
    THEN <<Head(sorted)>> \o InsertIssue(issue, Tail(sorted))
    ELSE <<issue>> \o sorted

RECURSIVE SortIssues(_)
SortIssues(issues) ==
    IF Len(issues) = 0 THEN <<>>
    ELSE InsertIssue(issues[Len(issues)],
                     SortIssues(SubSeq(issues, 1, Len(issues) - 1)))

collectAllIssues(table, results) ==
    LET keys == SelectSeq(KeyOrder,
                          LAMBDA k : k \in DOMAIN results /\ results[k].score < 75)
        issues == [i \in 1..Len(keys) |->
                     extractIssueData(table[keys[i]].name, results[keys[i]],
                                      getIssueSeverity(results[keys[i]].score))]
    IN SortIssues(issues)

\* Scores on both sides of every threshold of getIssueSeverity and of the
\* test score < 75.
IssueScores == {0, 29, 30, 49, 50, 64, 65, 74, 75, 100}

\* A metric result as generateMetricResult makes it; the last metric comes
\* with two recommendations only.
IssueResult(k, score) ==
    [score |-> score,
     status |-> getScoreStatus(score),
     details |-> <<Text("first issue")>>,
     specificData |-> <<>>,
     recommendations |->
        IF k = "sitemap" THEN Slice(RecommendationTable[setupMetrics[k].name], 2)
        ELSE RecommendationTable[setupMetrics[k].name]]

\* Results for the twelve metrics: two of them at scores of their own, the
\* others at a common score.
IssueInputs ==
    {[k \in MetricKeys |->
        IssueResult(k, IF k = KeyOrder[t[2]] THEN t[3]
                       ELSE IF k = KeyOrder[t[4]] THEN t[5] ELSE t[1])] :
        t \in {u \in {40, 80} \X (1..12) \X IssueScores \X (1..12) \X IssueScores :
                  u[2] < u[4]}}

IssuesInit == aggResults \in IssueInputs /\ aggTotal = <<>> /\ aggIssues = <<>>

\* collectAllIssues(results)
CollectAllIssues ==
    /\ aggIssues = <<>>
    /\ aggIssues' = <<collectAllIssues(metrics, aggResults)>>
    /\ UNCHANGED <<metrics, aggResults, aggTotal, evalVars, uiVars, runs, reqs>>

NextIssues == CollectAllIssues

InitIssues == MetricsInit /\ EvalIdle /\ IssuesInit /\ UIInit /\ RunsIdle /\ ProxyIdle
SpecIssues == InitIssues /\ [][NextIssues]_vars

InitAgg == MetricsInit /\ EvalIdle /\ AggInit /\ UIInit /\ RunsIdle /\ ProxyIdle
SpecAgg == InitAgg /\ [][NextAgg]_vars

-----------------------------------------------------------------------------
(* The Node proxy (src/server.js): the routes that forward a request to the *)
(* Python backend with axios and answer from the way the call settles.      *)

Routes == {"analyze", "health", "metrics"}

HasTimeout_none(route) == FALSE

\* The axios options of the upstream call: /api/analyze alone passes
\* { timeout: 60000 }.
HasTimeout(route) == route = "analyze"

\* response.data as axios hands it over: the value of a JSON object with its
\* fields error, status and payload, or the text of a body that is no JSON.
\* A field the value lacks reads as undefined, here <<>>.
JsonBody(error, status, data) ==
    [kind |-> "json", error |-> error, status |-> status, data |-> data]
TextBody == [kind |-> "text", error |-> <<>>, status |-> <<>>, data |-> <<>>]

\* response.data of a body that is the JSON text null: reading a property
\* of it throws a TypeError.
NullBody == [kind |-> "null", error |-> <<>>, status |-> <<>>, data |-> <<>>]

\* Bodies of the backend's 2xx replies and of its error replies.
SuccessBodies ==
    {JsonBody(<<>>, <<>>, <<"report">>), JsonBody(<<>>, <<"healthy">>, <<>>),
     JsonBody(<<>>, <<>>, <<>>)}
FailureBodies ==
    {JsonBody(<<"url is required">>, <<>>, <<>>), JsonBody(<<"">>, <<>>, <<>>),
     JsonBody(<<>>, <<>>, <<>>), TextBody}

\* How the axios promise settles: resolved with a response, rejected with
\* error.response (a status outside 2xx), or rejected with error.code only.
Resolved(body) ==
    [kind |-> "resolved", code |-> <<>>, status |-> <<200>>, body |-> <<body>>]
RejectedWith(status, body) ==
    [kind |-> "rejected", code |-> <<"ERR_BAD_RESPONSE">>, status |-> <<status>>,
     body |-> <<body>>]
RejectedCode(code) ==
    [kind |-> "rejected", code |-> <<code>>, status |-> <<>>, body |-> <<>>]

ErrorStatuses == {400, 503}

\* What the backend and the connection to it can make of a call.
Settlements ==
    {Resolved(b) : b \in SuccessBodies}
    \cup {RejectedWith(st, b) : st \in ErrorStatuses, b \in FailureBodies}
    \cup {RejectedCode("ECONNREFUSED"), RejectedCode("ECONNRESET")}

\* The rejection axios makes when the timeout of the call runs out.
TimedOut == RejectedCode("ECONNABORTED")

\* a || b on a field that may be undefined or the empty string
OrDefault(field, default) ==
    IF field = <<>> \/ field = <<"">> THEN default ELSE field[1]

\* What res.status(status).json(...) sends.
Reply(status, error, health, data) ==
    [status |-> status, error |-> error, health |-> health, data |-> data]

analyzeHandler_always500(settled) ==
    IF settled.kind = "resolved"
    THEN Reply(200, <<>>, <<>>, settled.body)
    ELSE Reply(500, <<"analysis service unavailable">>, <<>>, <<>>)

\* app.post('/api/analyze'): the handler from the settling of axios.post on.
\* response.data.totalScore of a null body throws inside the try, and the
\* catch finds an error without code and without response.
analyzeHandler(settled) ==
    IF settled.kind = "resolved" /\ settled.body[1].kind = "null"
    THEN Reply(500, <<"analysis service unavailable">>, <<>>, <<>>)
    ELSE IF settled.kind = "resolved"
    THEN Reply(200, <<>>, <<>>, settled.body)
    ELSE IF settled.code = <<"ECONNREFUSED">>
    THEN Reply(500, <<"Python backend not started">>, <<>>, <<>>)
    ELSE IF settled.status # <<>>
    THEN Reply(settled.status[1],
               <<OrDefault(settled.body[1].error, "SEO analysis failed")>>,
               <<>>, <<>>)
    ELSE Reply(500, <<"analysis service unavailable">>, <<>>, <<>>)

healthHandler_alwaysHealthy(settled) ==
    Reply(200, <<>>,
          <<[status |-> "healthy", nodejs |-> "running",
             python |-> IF settled.kind = "resolved"
                        THEN settled.body[1].status ELSE <<>>]>>, <<>>)

\* app.get('/api/health'): the handler from the settling of axios.get on.
\* pythonHealth.data.status of a null body throws inside the try.
healthHandler(settled) ==
    IF settled.kind = "resolved" /\ settled.body[1].kind # "null"
    THEN Reply(200, <<>>,
               <<[status |-> "healthy", nodejs |-> "running",
                  python |-> settled.body[1].status]>>, <<>>)
    ELSE Reply(500, <<"Python backend unavailable">>,
               <<[status |-> "unhealthy", nodejs |-> "running",
                  python |-> <<"unavailable">>]>>, <<>>)

\* app.get('/api/metrics'): the handler from the settling of axios.get on.
metricsHandler(settled) ==
    IF settled.kind = "resolved"
    THEN Reply(200, <<>>, <<>>, settled.body)
    ELSE Reply(500, <<"cannot get SEO metrics">>, <<>>, <<>>)

Handler(route, settled) ==
    CASE route = "analyze" -> analyzeHandler(settled)
      [] route = "health"  -> healthHandler(settled)
      [] route = "metrics" -> metricsHandler(settled)

\* Requests to the proxy that are followed.
MaxRequests == 2

\* A request arrives and its handler runs up to the await of the axios call.
Receive ==
    /\ Len(reqs) < MaxRequests
    /\ \E route \in Routes :
         reqs' = Append(reqs, [route |-> route, settled |-> <<>>, response |-> <<>>])
    /\ UNCHANGED <<metrics, evalVars, aggVars, uiVars, runs>>

\* error.response.data.error of a null body throws inside the catch of the
\* analyze handler, and the promise of the handler rejects.
HandlerRejects(route, settled) ==
    /\ route = "analyze"
    /\ settled.kind = "rejected"
    /\ settled.code # <<"ECONNREFUSED">>
    /\ settled.status # <<>>
    /\ settled.body[1].kind = "null"

\* The responses a request may get. Express 4 does not look at the promise
\* of a handler, so a rejected one sends nothing; Express 5 passes the
\* rejection to its error handler, which sends a 500.
Outcomes(route, settled) ==
    IF HandlerRejects(route, settled)
    THEN {<<>>, <<Reply(500, <<"Internal Server Error">>, <<>>, <<>>)>>}
    ELSE {<<Handler(route, settled)>>}

\* The handler of request i goes on with the settled call and answers.
Answer(i, settled) ==
    \E sent \in Outcomes(reqs[i].route, settled) :
        reqs' = [reqs EXCEPT ![i] = [route |-> reqs[i].route,
                                     settled |-> <<settled>>,
                                     response |-> sent]]

\* The backend replies, or the connection to it fails.
AxiosSettles(i) ==
    /\ i \in 1..Len(reqs)
    /\ reqs[i].settled = <<>>
    /\ \E settled \in Settlements : Answer(i, settled)
    /\ UNCHANGED <<metrics, evalVars, aggVars, uiVars, runs>>

\* The backend has not replied when the timeout of the call runs out.
AxiosTimesOut(i) ==
    /\ i \in 1..Len(reqs)
    /\ reqs[i].settled = <<>>
    /\ HasTimeout(reqs[i].route)
    /\ Answer(i, TimedOut)
    /\ UNCHANGED <<metrics, evalVars, aggVars, uiVars, runs>>

NextProxy ==
    \/ Receive
    \/ \E i \in 1..MaxRequests : AxiosSettles(i)
    \/ \E i \in 1..MaxRequests : AxiosTimesOut(i)

SpecProxy == Init /\ [][NextProxy]_vars

\* The timer of a pending call does fire; the backend need never reply.
FairSpecProxy == SpecProxy /\ \A i \in 1..MaxRequests : WF_vars(AxiosTimesOut(i))

\* Replies of a backend whose body is the JSON text null.
NullSettlements ==
    {Resolved(NullBody)} \cup {RejectedWith(st, NullBody) : st \in ErrorStatuses}

\* The backend replies with a null body.
AxiosSettlesNull(i) ==
    /\ i \in 1..Len(reqs)
    /\ reqs[i].settled = <<>>
    /\ \E settled \in NullSettlements : Answer(i, settled)
    /\ UNCHANGED <<metrics, evalVars, aggVars, uiVars, runs>>

NextProxyAny ==
    \/ NextProxy
    \/ \E i \in 1..MaxRequests : AxiosSettlesNull(i)

\* The proxy in front of a backend that may reply with any JSON value.
SpecProxyAny == Init /\ [][NextProxyAny]_vars

-----------------------------------------------------------------------------
(* Several analyzeWebsite calls: the click on the button and the Enter key  *)
(* in the URL field both call analyzeWebsite, and each call keeps its own   *)
(* locals while it shares the page with the other calls.                    *)

\* analyzeWebsite calls that get past the validation and are followed.
MaxRuns == 2

\* What the calls of this part leave alone.
runFrame == <<metrics, evalVars, aggVars, reqs, pc, reqUrl, wire, events,
              lostTail, buffer, result, processed, outcome>>

\* The response streams the server may write for call r; the progress
\* messages of a call carry its number.
RunStreams(r) ==
    {<<Progress(ToString(r)), Complete(ReportFull)>>,
     <<Complete(ReportForeign)>>,
     <<Progress(ToString(r)), Progress(ToString(r))>>,
     <<Progress(ToString(r)), ErrorEvent("page not reachable")>>}

\* analyzeWebsite up to the await of performAnalysis at fetch.
StartRun(typed) ==
    LET url == Trim(typed) IN
    /\ urlField' = typed
    /\ IF url = <<>>
       THEN /\ lastAlert' = <<"Please enter a website URL">>
            /\ UNCHANGED <<overlayHidden, btnDisabled, progressMessages, runs>>
       ELSE IF RejectsInput(url)
       THEN /\ lastAlert' = <<"Please enter a valid URL">>
            /\ UNCHANGED <<overlayHidden, btnDisabled, progressMessages, runs>>
       ELSE /\ Len(runs) < MaxRuns
            /\ showLoading
            /\ runs' = Append(runs, [pc |-> "fetching", url |-> AddScheme(url),
                                     stream |-> <<>>, result |-> <<>>])
            /\ UNCHANGED lastAlert
    /\ UNCHANGED <<displayed, runFrame>>

\* analyzeBtn 'click': a disabled button dispatches no click.
ClickAnalyze ==
    /\ ~btnDisabled
    /\ \E typed \in {<<HostChar>>, <<BadChar>>, <<>>} : StartRun(typed)

\* urlInput 'keypress' with e.key === 'Enter'
KeypressEnter ==
    \E typed \in {<<HostChar>>, <<BadChar>>, <<>>} : StartRun(typed)

RunThrows_keepsLoading(i, msg) ==
    /\ lastAlert' = <<"analysis failed, please retry. Error: ", msg>>
    /\ runs' = [runs EXCEPT ![i] = [pc |-> "done", url |-> runs[i].url,
                                    stream |-> <<>>, result |-> <<>>]]
    /\ UNCHANGED <<overlayHidden, btnDisabled, displayed>>

\* catch (error) { alert(...) } finally { this.hideLoading() } of call i
RunThrows(i, msg) ==
    /\ lastAlert' = <<"analysis failed, please retry. Error: ", msg>>
    /\ hideLoading
    /\ runs' = [runs EXCEPT ![i] = [pc |-> "done", url |-> runs[i].url,
                                    stream |-> <<>>, result |-> <<>>]]
    /\ UNCHANGED displayed

\* The fetch of call i rejects, or its response is not ok.
RunFetchFails(i) ==
    /\ i \in 1..Len(runs)
    /\ runs[i].pc = "fetching"
    /\ RunThrows(i, <<"analysis request failed">>)
    /\ UNCHANGED <<urlField, progressMessages, runFrame>>

\* The fetch of call i resolves with the response the server streams.
RunFetchResponds(i) ==
    /\ i \in 1..Len(runs)
    /\ runs[i].pc = "fetching"
    /\ \E stream \in RunStreams(i) :
         runs' = [runs EXCEPT ![i] = [pc |-> "reading", url |-> runs[i].url,
                                      stream |-> stream, result |-> <<>>]]
    /\ UNCHANGED <<urlField, lastAlert, overlayHidden, btnDisabled,
                   progressMessages, displayed, runFrame>>

\* reader.read() of call i resolves with the next message of the stream.
RunReadEvent(i) ==
    /\ i \in 1..Len(runs)
    /\ runs[i].pc = "reading"
    /\ runs[i].stream # <<>>
    /\ LET st == HandleEvent([result |-> runs[i].result, msgs |-> progressMessages,
                              processed |-> <<>>, thrown |-> <<>>],
                             Head(runs[i].stream))
       IN IF st.thrown # <<>>
          THEN RunThrows(i, st.thrown) /\ UNCHANGED progressMessages
          ELSE /\ progressMessages' = st.msgs
               /\ runs' = [runs EXCEPT ![i] = [pc |-> "reading", url |-> runs[i].url,
                                               stream |-> Tail(runs[i].stream),
                                               result |-> st.result]]
               /\ UNCHANGED <<lastAlert, overlayHidden, btnDisabled, displayed>>
    /\ UNCHANGED <<urlField, runFrame>>

\* reader.read() of call i resolves with done: the rest of performAnalysis,
\* then displayResults and hideLoading.
RunReadDone(i) ==
    /\ i \in 1..Len(runs)
    /\ runs[i].pc = "reading"
    /\ runs[i].stream = <<>>
    /\ IF runs[i].result = <<>>
       THEN RunThrows(i, <<"no analysis result received">>)
       ELSE IF DisplayThrows(ConvertReport(runs[i].result[1]))
       THEN RunThrows(i, <<"TypeError">>)
       ELSE /\ displayed' = <<displayResults(metrics, ConvertReport(runs[i].result[1]))>>
            /\ hideLoading
            /\ runs' = [runs EXCEPT ![i] = [pc |-> "done", url |-> runs[i].url,
                                            stream |-> <<>>, result |-> <<>>]]
            /\ UNCHANGED lastAlert
    /\ UNCHANGED <<urlField, progressMessages, runFrame>>

NextRuns ==
    \/ ClickAnalyze
    \/ KeypressEnter
    \/ \E i \in 1..MaxRuns : RunFetchFails(i)
    \/ \E i \in 1..MaxRuns : RunFetchResponds(i)
    \/ \E i \in 1..MaxRuns : RunReadEvent(i)
    \/ \E i \in 1..MaxRuns : RunReadDone(i)

SpecRuns == Init /\ [][NextRuns]_vars

\* The fetch of a call settles and its reader goes on resolving until the
\* stream has ended.
FairSpecRuns ==
    /\ SpecRuns
    /\ \A i \in 1..MaxRuns :
         /\ WF_vars(RunFetchFails(i) \/ RunFetchResponds(i))
         /\ WF_vars(RunReadEvent(i))
         /\ WF_vars(RunReadDone(i))

-----------------------------------------------------------------------------
(* Properties.                                                              *)

Range(f) == {f[x] : x \in DOMAIN f}

\* C1: the score generateMetricResult returns, for each of the twelve
\* evaluators and for the fallback of an unknown metric and for every
\* combination of measured values, is an integer from 0 to 100.
C1_ScoreInRange ==
    evalResult # <<>> => evalResult[1].score \in 0..100

\* An evaluator has returned a score at the floor: every rule of
\* analyzePageSpeed triggered.
C1_Witness ==
    /\ evalResult # <<>>
    /\ evalMetric[1].name = "Page Speed"
    /\ evalResult[1].score = 0

StatusRank(status) ==
    CASE status = "poor" -> 0
      [] status = "warning" -> 1
      [] status = "good" -> 2
      [] status = "excellent" -> 3

\* The thresholds of the claim, written out.
StatusFits(score, status) ==
    /\ status \in {"excellent", "good", "warning", "poor"}
    /\ status = "excellent" <=> score >= 90
    /\ status = "good" <=> (75 <= score /\ score < 90)
    /\ status = "warning" <=> (60 <= score /\ score < 75)
    /\ status = "poor" <=> score < 60

\* C2: getScoreStatus is total and monotone with the thresholds 90, 75 and
\* 60, and the status of every result generateMetricResult returns is the
\* one these thresholds give its score.
C2_StatusFollowsScore ==
    /\ \A s \in -20..140 : StatusFits(s, getScoreStatus(s))
    /\ \A s, t \in -20..140 :
         s <= t => StatusRank(getScoreStatus(s)) <= StatusRank(getScoreStatus(t))
    /\ evalResult # <<>> => StatusFits(evalResult[1].score, evalResult[1].status)

\* A result whose score sits on the threshold of 'excellent'.
C2_Witness ==
    /\ evalResult # <<>>
    /\ evalResult[1].score = 90
    /\ evalResult[1].status = "excellent"

AllScoresAre(results, score) ==
    /\ DOMAIN results = MetricKeys
    /\ \A k \in MetricKeys : results[k].score = score

\* C3: with all twelve metrics at score 100 the total score is 120 and its
\* status is 'excellent'.
C3_AllHundredGives120 ==
    (aggTotal # <<>> /\ AllScoresAre(aggResults, 100)) =>
        (aggTotal[1].score = 120 /\ aggTotal[1].status = "excellent")

\* C4: with all twelve metrics at score 0 the total score is 0 and its
\* status is 'poor'.
C4_AllZeroGivesZero ==
    (aggTotal # <<>> /\ AllScoresAre(aggResults, 0)) =>
        (aggTotal[1].score = 0 /\ aggTotal[1].status = "poor")

\* calculateTotalScore has returned for twelve results of score 0.
C4_Witness ==
    /\ aggTotal # <<>>
    /\ AllScoresAre(aggResults, 0)
    /\ aggTotal[1].totalWeight = 100

\* C5: the weight table has a weight for each of the twelve metric keys and
\* for no other key, the weights sum to 100, and no step changes the table.
C5_WeightTableFixed ==
    /\ [](/\ DOMAIN metrics = MetricKeys
          /\ SumOver(MetricKeys, [k \in MetricKeys |-> metrics[k].weight]) = 100)
    /\ [][metrics' = metrics]_vars

\* A run has gone through to displayResults and the table is as set up.
C5_Witness ==
    /\ pc = "idle"
    /\ displayed # <<>>
    /\ outcome # <<>>
    /\ metrics["sitemap"].weight = 3

Terminal(ev) == ev.type \in {"complete", "error"}

\* C6: once the consumer has processed a 'complete' or 'error' event it acts
\* on no later event of the stream: a terminal event is the last one
\* dispatched.
C6_NoEventAfterTerminal ==
    \A i \in 1..Len(processed) : Terminal(processed[i]) => i = Len(processed)

\* The events that reach the consumer as whole messages.
Delivered ==
    IF lostTail > 0 THEN SubSeq(events, 1, Len(events) - 1) ELSE events

NonProgress(evs) == SelectSeq(evs, LAMBDA ev : ev.type # "progress")

\* What a stream without progress events comes to: the first error event
\* throws, otherwise the last complete event is the report, otherwise there
\* is no result.
ExpectedOutcome(evs) ==
    LET errors == {i \in 1..Len(evs) : evs[i].type = "error"}
        completes == {i \in 1..Len(evs) : evs[i].type = "complete"}
    IN IF errors # {}
       THEN Thrown(evs[CHOOSE i \in errors : \A j \in errors : i <= j].message)
       ELSE IF completes # {}
       THEN Returned(ConvertReport(
                evs[CHOOSE i \in completes : \A j \in completes : j <= i].data[1]))
       ELSE Thrown(<<"no analysis result received">>)

\* The failures of the connection, which no event of the stream causes.
ConnectionFailures ==
    {<<"Failed to fetch">>, <<"analysis request failed">>, <<"network error">>}

\* C7: the outcome of performAnalysis is the outcome of the stream with its
\* progress events taken out, so two streams that differ only in progress
\* events end alike; and a call returns a report only if the stream holds a
\* complete event.
C7_ProgressIsInformational ==
    /\ (outcome # <<>> /\ outcome[1].message \notin ConnectionFailures) =>
          outcome[1] = ExpectedOutcome(NonProgress(Delivered))
    /\ (outcome # <<>> /\ outcome[1].kind = "returned") =>
          \E i \in 1..Len(events) : events[i].type = "complete"

\* A call has returned a report after progress events before and after the
\* complete event.
C7_Witness ==
    /\ outcome # <<>>
    /\ outcome[1].kind = "returned"
    /\ Len(processed) = 3
    /\ processed[1].type = "progress"
    /\ processed[2].type = "complete"
    /\ processed[3].type = "progress"

\* C8: performAnalysis returns a report, and displayResults shows it, only
\* if the report holds a result for all twelve metric keys.
C8_OnlyFullReportsReturned ==
    /\ (outcome # <<>> /\ outcome[1].kind = "returned") =>
          MetricKeys \subseteq DOMAIN outcome[1].results[1]
    /\ displayed # <<>> => Len(displayed[1].metricCards) = 12

\* C9: for a metric outside this.metrics generateMetricResult returns the
\* fallback: score 50, status 'poor', no recommendations.
C9_ForeignMetricFallback ==
    (evalResult # <<>> /\ evalMetric[1] \notin Range(metrics)) =>
        /\ evalResult[1].score = 50
        /\ evalResult[1].status = "poor"
        /\ evalResult[1].recommendations = <<>>

\* generateMetricResult has returned for a metric that is not in the table.
C9_Witness ==
    /\ evalResult # <<>>
    /\ evalMetric[1] = ForeignMetric
    /\ KeyOfMetric(metrics, evalMetric[1]) = Undefined

\* C10: a call of analyzeWebsite whose trimmed field is empty or is rejected
\* by isValidUrl starts nothing: no showLoading, no request, no call of
\* performAnalysis or displayResults; overlay and button stay as they are.
C10_InvalidInputStartsNothing ==
    [][(Trim(urlField') = <<>> \/ ~isValidUrl(Trim(urlField'))) =>
         /\ UNCHANGED <<overlayHidden, btnDisabled, progressMessages, displayed>>
         /\ pc' = "idle"
         /\ reqUrl' = <<>>
         /\ outcome' = <<>>]_vars

\* analyzeWebsite has turned down a field that isValidUrl rejects, with the
\* report of an earlier run still on display.
C10_Witness ==
    /\ lastAlert = <<"Please enter a valid URL">>
    /\ Trim(urlField) # <<>>
    /\ ~isValidUrl(Trim(urlField))
    /\ displayed # <<>>
    /\ overlayHidden
    /\ ~btnDisabled

\* A penalty rule of an evaluator: the threshold condition on the measured
\* data, the condition of the branch the rule sits in, the deduction and the
\* issue string. Two tiers of one quantity (if / else if) have disjoint
\* threshold conditions.
Rule(cond, guard, d, issue) ==
    [cond |-> cond, guard |-> guard, d |-> d, issue |-> issue]

RulesOf(metricKey, m) ==
    CASE metricKey = "pageSpeed" ->
           <<Rule(m.loadTime > 2000, TRUE, 30, Issue("load time too long", m.loadTime)),
             Rule(m.loadTime > 1500 /\ m.loadTime <= 2000, TRUE, 15,
                  Issue("load time slow", m.loadTime)),
             Rule(m.totalSize > 1500, TRUE, 25, Issue("total size too large", m.totalSize)),
             Rule(m.imageSize > 500, TRUE, 20, Issue("image size too large", m.imageSize)),
             Rule(m.cssSize > 150, TRUE, 10, Issue("css too large", m.cssSize)),
             Rule(m.jsSize > 200, TRUE, 15, Issue("js too large", m.jsSize))>>
      [] metricKey = "mobileOptimization" ->
           <<Rule(~m.hasViewport, TRUE, 40, Text("missing viewport meta tag")),
             Rule(m.smallTouchTargets > 3, TRUE, 25,
                  Issue("touch targets too small", m.smallTouchTargets)),
             Rule(m.fontSize < 14, TRUE, 20, Issue("font too small", m.fontSize)),
             Rule(~m.hasMobileMenu, TRUE, 15, Text("missing mobile menu"))>>
      [] metricKey = "metaTags" ->
           <<Rule(m.titleLength < 30, TRUE, 20, Issue("title too short", m.titleLength)),
             Rule(m.titleLength > 60, TRUE, 15, Issue("title too long", m.titleLength)),
             Rule(m.descriptionLength < 120, TRUE, 15,
                  Issue("description too short", m.descriptionLength)),
             Rule(m.descriptionLength > 160, TRUE, 10,
                  Issue("description too long", m.descriptionLength)),
             Rule(~m.hasKeywords, TRUE, 5, Text("missing keywords meta tag")),
             Rule(~m.hasCanonical, TRUE, 10, Text("missing canonical tag")),
             Rule(m.duplicateTitles > 0, TRUE, 20,
                  Issue("duplicate titles", m.duplicateTitles))>>
      [] metricKey = "headingStructure" ->
           <<Rule(m.h1Count > 1, TRUE, 30, Issue("several H1 tags", m.h1Count)),
             Rule(m.h1Count = 0, TRUE, 40, Text("missing H1 tag")),
             Rule(m.missingHeadings > 2, TRUE, 20,
                  Issue("pages without heading tags", m.missingHeadings)),
             Rule(m.skippedLevels > 1, TRUE, 15,
                  Issue("heading levels skipped", m.skippedLevels))>>
      [] metricKey = "imageOptimization" ->
           <<Rule(m.largeImages > 3, TRUE, 25, Issue("images too large", m.largeImages)),
             Rule(m.missingAlt > 2, TRUE, 20, Issue("images without alt", m.missingAlt)),
             Rule(m.webpImages * 10 < m.totalImages * 2, TRUE, 15,
                  Issue("few WebP images", m.webpImages)),
             Rule(m.lazyLoaded * 10 < m.totalImages * 3, TRUE, 10,
                  Issue("few lazy loaded images", m.lazyLoaded))>>
      [] metricKey = "internalLinking" ->
           <<Rule(m.brokenLinks > 1, TRUE, 30, Issue("broken links", m.brokenLinks)),
             Rule(m.orphanPages > 3, TRUE, 25, Issue("orphan pages", m.orphanPages)),
             Rule(m.totalLinks < 20, TRUE, 20, Issue("few internal links", m.totalLinks)),
             Rule(m.deepLinks > 5, TRUE, 15, Issue("links too deep", m.deepLinks))>>
      [] metricKey = "sslCertificate" ->
           <<Rule(~m.hasSSL, TRUE, 100, Text("site does not use HTTPS")),
             Rule(m.daysToExpire < 30, m.hasSSL, 20,
                  Issue("certificate expires in days", m.daysToExpire)),
             Rule(~m.hasHSTS, m.hasSSL, 15, Text("missing HSTS header")),
             Rule(m.mixedContent > 0, m.hasSSL, 25,
                  Issue("mixed content", m.mixedContent))>>
      [] metricKey = "socialMediaTags" ->
           <<Rule(~m.hasOpenGraph, TRUE, 30, Text("missing Open Graph tags")),
             Rule(~m.hasTwitterCards, TRUE, 25, Text("missing Twitter Card tags")),
             Rule(~m.hasImage, TRUE, 20, Text("missing social image")),
             Rule(~m.hasDescription, TRUE, 15, Text("missing social description"))>>
      [] metricKey = "contentQuality" ->
           <<Rule(m.wordCount < 500, TRUE, 25, Issue("content too short", m.wordCount)),
             Rule(m.keywordDensity < 1 \/ m.keywordDensity > 3, TRUE, 20,
                  Issue("keyword density off", m.keywordDensity)),
             Rule(m.readabilityScore < 50, TRUE, 15,
                  Issue("poor readability", m.readabilityScore)),
             Rule(m.duplicateContent > 1, TRUE, 30,
                  Issue("duplicate content", m.duplicateContent)),
             Rule(m.internalLinks < 3, TRUE, 10,
                  Issue("few internal links", m.internalLinks))>>
      [] metricKey = "urlStructure" ->
           <<Rule(m.urlLength > 60, TRUE, 20, Issue("URL too long", m.urlLength)),
             Rule(~m.hasKeywords, TRUE, 25, Text("URL lacks keywords")),
             Rule(m.hasSpecialChars, TRUE, 15, Text("URL has special characters")),
             Rule(m.depth > 3, TRUE, 10, Issue("URL too deep", m.depth))>>
      [] metricKey = "robotsTxt" ->
           <<Rule(~m.hasRobotsTxt, TRUE, 40, Text("missing robots.txt")),
             Rule(m.blocksImportantPages, m.hasRobotsTxt, 30,
                  Text("robots.txt blocks important pages")),
             Rule(~m.hasSitemapReference, m.hasRobotsTxt, 15,
                  Text("robots.txt lacks sitemap reference")),
             Rule(m.blocksCSS, m.hasRobotsTxt, 10, Text("robots.txt blocks CSS"))>>
      [] metricKey = "sitemap" ->
           <<Rule(~m.hasSitemap, TRUE, 50, Text("missing XML sitemap")),
             Rule(m.lastModified > 7, m.hasSitemap, 20,
                  Issue("sitemap not updated for days", m.lastModified)),
             Rule(~m.hasImages, m.hasSitemap, 10,
                  Text("sitemap lacks image information")),
             Rule(~m.submittedToGoogle, m.hasSitemap, 15,
                  Text("sitemap not submitted to Google Search Console"))>>

\* The 'no issues' string of each evaluator.
NoIssuesOf(metricKey) ==
    CASE metricKey = "pageSpeed"          -> "page speed is good"
      [] metricKey = "mobileOptimization" -> "mobile optimization is good"
      [] metricKey = "metaTags"           -> "meta tags are good"
      [] metricKey = "headingStructure"   -> "heading structure is sound"
      [] metricKey = "imageOptimization"  -> "image optimization is good"
      [] metricKey = "internalLinking"    -> "internal linking is good"
      [] metricKey = "sslCertificate"     -> "SSL configuration is secure"
      [] metricKey = "socialMediaTags"    -> "social media tags are complete"
      [] metricKey = "contentQuality"     -> "content quality is good"
      [] metricKey = "urlStructure"       -> "URL structure is good"
      [] metricKey = "robotsTxt"          -> "robots.txt is correct"
      [] metricKey = "sitemap"            -> "XML sitemap is good"

RECURSIVE TotalDeduction(_)
TotalDeduction(rules) ==
    IF Len(rules) = 0 THEN 0 ELSE Head(rules).d + TotalDeduction(Tail(rules))

IssuesOf(rules) == [i \in 1..Len(rules) |-> rules[i].issue]

\* The metric key of the evaluator that produced evalResult.
EvalKey == KeyOfMetric(metrics, evalMetric[1])

\* C11: in every evaluator each rule whose threshold condition holds on the
\* measured data has its deduction applied and its issue string recorded,
\* whatever the other rules of the evaluator come to.
C11_RulesIndependent ==
    (evalResult # <<>> /\ EvalKey \in MetricKeys) =>
        LET holding == SelectSeq(RulesOf(EvalKey, evalDraws), LAMBDA r : r.cond) IN
        /\ \A i \in 1..Len(holding) : holding[i].issue \in Range(evalResult[1].details)
        /\ evalResult[1].score = Max(0, 100 - TotalDeduction(holding))

\* C12: generateRecommendations returns for a metric name the same list for
\* every score, of at most 5 entries, and the recommendations of a metric
\* result are that list whatever the measured data and the score.
C12_RecommendationsFixed ==
    /\ \A n \in DOMAIN RecommendationTable \cup {ForeignMetric.name} :
         /\ \A s \in 0..100 :
              generateRecommendations(n, s) = generateRecommendations(n, 100)
         /\ Len(generateRecommendations(n, 100)) <= 5
    /\ (evalResult # <<>> /\ EvalKey \in MetricKeys) =>
          evalResult[1].recommendations =
              generateRecommendations(evalMetric[1].name, 100)

\* An evaluator has returned the five recommendations of its metric with
\* every rule triggered.
C12_Witness ==
    /\ evalResult # <<>>
    /\ evalMetric[1].name = "Social Media Tags"
    /\ evalResult[1].score = 10
    /\ Len(evalResult[1].recommendations) = 5

\* C13: details is the issue strings of exactly the rules that triggered,
\* joined in the order of the rules in the evaluator; with no rule triggered
\* it is the 'no issues' string of the metric.
C13_DetailsAreTriggeredIssues ==
    (evalResult # <<>> /\ EvalKey \in MetricKeys) =>
        LET triggered == SelectSeq(RulesOf(EvalKey, evalDraws),
                                   LAMBDA r : r.cond /\ r.guard)
        IN evalResult[1].details =
              IF Len(triggered) = 0 THEN <<Text(NoIssuesOf(EvalKey))>>
              ELSE Join(IssuesOf(triggered))

\* analyzeContentQuality has returned with its first, third and fifth rule
\* triggered and the others not.
C13_Witness ==
    /\ evalResult # <<>>
    /\ evalMetric[1].name = "Content Quality"
    /\ evalDraws.wordCount < 500
    /\ evalDraws.readabilityScore < 50
    /\ evalDraws.internalLinks < 3
    /\ evalDraws.duplicateContent <= 1
    /\ Len(evalResult[1].details) = 5

\* C14: a second call of calculateTotalScore on the same results returns the
\* score and status of the first, and no call changes the results mapping
\* or the weight table.
C14_AggregationIdempotent ==
    [][aggTotal' # aggTotal =>
         /\ aggResults' = aggResults
         /\ metrics' = metrics
         /\ aggTotal # <<>> =>
              /\ aggTotal'[Len(aggTotal')].score = aggTotal[1].score
              /\ aggTotal'[Len(aggTotal')].status = aggTotal[1].status]_vars

\* calculateTotalScore has been called twice on twelve results that are not
\* all alike.
C14_Witness ==
    /\ Len(aggTotal) = 2
    /\ DOMAIN aggResults = MetricKeys
    /\ aggResults["pageSpeed"].score = 100
    /\ aggResults["sitemap"].score = 50
    /\ aggTotal[2].score \in 1..99

\* C15: for every results mapping calculateTotalScore is called with, the
\* empty one and partial ones included, the divisor totalWeight is positive
\* and the total score is an integer.
C15_DivisorPositive ==
    \A i \in 1..Len(aggTotal) :
        /\ aggTotal[i].totalWeight > 0
        /\ aggTotal[i].score \in 0..100

\* C19: the weight of each metric in the table the weighted total uses is
\* the weight the README documents for it.
C19_WeightsAsDocumented ==
    \A k \in MetricKeys : metrics[k].weight = READMEWeights[k]

Answered(i) == i \in 1..Len(reqs) /\ reqs[i].response # <<>>

IsRequest(i, route) == i \in 1..Len(reqs) /\ reqs[i].route = route

InFlight == {i \in 1..Len(runs) : runs[i].pc # "done"}

\* C20: at most one analyzeWebsite call is between showLoading and
\* hideLoading at any time, the progress container never holds messages of
\* two calls, and the overlay is never hidden while a call is in flight.
C20_SingleRunInFlight ==
    /\ Cardinality(InFlight) <= 1
    /\ \A a, b \in 1..Len(progressMessages) : progressMessages[a] = progressMessages[b]
    /\ InFlight # {} => ~overlayHidden

Ended(i) == i \in 1..Len(runs) /\ runs[i].pc = "done"

\* C21: every analyzeWebsite call that reached showLoading reaches
\* hideLoading, whether performAnalysis returns or throws or displayResults
\* throws; and with no call in flight the button is enabled and the overlay
\* hidden.
C21_LoadingAlwaysEnds ==
    /\ \A i \in 1..MaxRuns : (i \in InFlight) ~> Ended(i)
    /\ [](InFlight = {} => (overlayHidden /\ ~btnDisabled))

\* A call has ended with displayResults throwing and the page is back to
\* idle.
C21_Witness ==
    /\ Len(runs) = 1
    /\ Ended(1)
    /\ lastAlert = <<"analysis failed, please retry. Error: ", <<"TypeError">>>>
    /\ overlayHidden
    /\ ~btnDisabled

IsPrefix(a, b) == Len(a) <= Len(b) /\ a = SubSeq(b, 1, Len(a))

\* What the for loop dispatches when the whole response arrives as one chunk.
OneChunk(evs) ==
    LET lines == Split(Encode(evs)) IN
    ProcessLines([result |-> <<>>, msgs |-> <<>>, processed |-> <<>>,
                  thrown |-> <<>>],
                 SubSeq(lines, 1, Len(lines) - 1)).processed

\* C22: whatever the chunks reader.read() cuts the response into, the
\* consumer dispatches the events of the stream in the order sent, each
\* once, and by the end of the call the same events as when the response
\* arrives in one chunk.
C22_ChunkingIndependent ==
    /\ IsPrefix(processed, events)
    /\ (lostTail = 0 /\ outcome # <<>> /\ outcome[1].message \notin ConnectionFailures)
          => processed = OneChunk(events)

\* Two events have been dispatched and the last read() ended inside the
\* blank line that closes the third message.
C22_Witness ==
    /\ pc = "reading"
    /\ Len(events) = 3
    /\ Len(processed) = 2
    /\ buffer = <<PrefixChar, JsonChar(events[3]), NL>>

NoneProcessed(type) == \A i \in 1..Len(processed) : processed[i].type # type

\* C23: a call whose stream ended with no 'complete' event dispatched, the
\* case of a last 'complete' message without its closing blank line
\* included, throws the 'no result received' error, and a call that throws
\* leaves what displayResults rendered as it was.
C23_NoResultNoReport ==
    /\ []((outcome # <<>> /\ NoneProcessed("complete")) =>
            /\ outcome[1].kind = "thrown"
            /\ (NoneProcessed("error") /\ outcome[1].message \notin ConnectionFailures)
                  => outcome[1].message = <<"no analysis result received">>)
    /\ [][(outcome' # <<>> /\ outcome'[1].kind = "thrown") => displayed' = displayed]_vars

\* The stream ended with its last message, a 'complete' event, left in the
\* buffer for want of the blank line, and the call threw.
C23_Witness ==
    /\ outcome = <<Thrown(<<"no analysis result received">>)>>
    /\ lostTail = 2
    /\ Len(events) = 2
    /\ events[2].type = "complete"
    /\ processed = <<events[1]>>
    /\ events[1].type = "progress"

\* C24: for every report performAnalysis returned, the total displayResults
\* shows is the one of results._totalScore, not one calculateTotalScore
\* makes of the metric results, and '_totalScore' gets no summary card and
\* no metric card.
C24_TotalFromBackend ==
    (pc = "idle" /\ outcome # <<>> /\ outcome[1].kind = "returned") =>
        LET results == outcome[1].results[1] IN
        /\ displayed # <<>>
        /\ displayed[1].title.score = results["_totalScore"].score
        /\ displayed[1].title.status = results["_totalScore"].status
        /\ \A i \in 1..Len(displayed[1].summaryCards) :
             displayed[1].summaryCards[i] # "_totalScore"
        /\ \A i \in 1..Len(displayed[1].metricCards) :
             displayed[1].metricCards[i] # "_totalScore"
        /\ Len(displayed[1].metricCards) = Cardinality(DOMAIN results) - 1

\* A report whose backend total differs from the weighted total of its
\* twelve metric scores has been displayed.
C24_Witness ==
    /\ pc = "idle"
    /\ outcome # <<>>
    /\ outcome[1].kind = "returned"
    /\ displayed # <<>>
    /\ displayed[1].title.score = 96
    /\ Len(displayed[1].metricCards) = 12
    /\ calculateTotalScore(metrics,
           [k \in MetricKeys |-> outcome[1].results[1][k]]).score = 80

\* The severity the claim gives a score below 75.
SeverityFits(score, severity) ==
    /\ severity = "critical" <=> score < 30
    /\ severity = "high" <=> (30 <= score /\ score <= 49)
    /\ severity = "medium" <=> (50 <= score /\ score <= 64)
    /\ severity = "low" <=> (65 <= score /\ score <= 74)

\* C25: for results of the twelve metrics collectAllIssues returns one
\* issue for each metric with a score below 75, which are the metrics of
\* status 'warning' or 'poor', and none for the others; the severities
\* follow the thresholds 30, 50 and 65; the list is ordered critical, high,
\* medium, low; each issue has the first 3 recommendations at most.
C25_IssuesBySeverity ==
    aggIssues # <<>> =>
        LET list == aggIssues[1]
            low == {k \in MetricKeys : aggResults[k].score < 75}
        IN /\ Len(list) = Cardinality(low)
           /\ \A k \in MetricKeys :
                /\ (k \in low) <=> (aggResults[k].status \in {"warning", "poor"})
                /\ Cardinality({i \in 1..Len(list) : list[i].metric = metrics[k].name})
                     = IF k \in low THEN 1 ELSE 0
                /\ \A i \in 1..Len(list) :
                     list[i].metric = metrics[k].name =>
                       /\ list[i].score = aggResults[k].score
                       /\ list[i].recommendations =
                            Slice(aggResults[k].recommendations, 3)
           /\ \A i \in 1..Len(list) :
                /\ SeverityFits(list[i].score, list[i].severity)
                /\ Len(list[i].recommendations) <= 3
           /\ \A i, j \in 1..Len(list) :
                i < j => severityOrder(list[i].severity) <= severityOrder(list[j].severity)

\* All twelve metrics have an issue, and the sort has moved the critical
\* one of the last metric to the front and the low one of the first metric
\* to the end.
C25_Witness ==
    /\ aggIssues # <<>>
    /\ Len(aggIssues[1]) = 12
    /\ aggIssues[1][1].metric = "XML Sitemap"
    /\ aggIssues[1][1].severity = "critical"
    /\ Len(aggIssues[1][1].recommendations) = 2
    /\ aggIssues[1][12].metric = "Page Speed"
    /\ aggIssues[1][12].severity = "low"

\* C26: every request whose handler has run to its end has got exactly one
\* response, whether the upstream call succeeded or failed or the handler
\* threw on the upstream reply.
C26_ExactlyOneResponse ==
    \A i \in 1..Len(reqs) : reqs[i].settled # <<>> => Len(reqs[i].response) = 1

\* C27: every GET /api/health and GET /api/metrics request is answered in
\* the end, also when the backend never replies.
C27_HealthAndMetricsAnswered ==
    \A i \in 1..MaxRequests :
        (IsRequest(i, "health") \/ IsRequest(i, "metrics")) ~> Answered(i)

\* The rules of the evaluator that triggered on the measured data.
Triggered ==
    SelectSeq(RulesOf(EvalKey, evalDraws), LAMBDA r : r.cond /\ r.guard)

\* C28: for every evaluator and every measured input, the score is 100
\* exactly when no rule triggered, and exactly then details is the 'no
\* issues' string of the metric; every rule deducts a positive amount.
C28_PerfectIffNoIssues ==
    (evalResult # <<>> /\ EvalKey \in MetricKeys) =>
        /\ (evalResult[1].score = 100) <=> (Len(Triggered) = 0)
        /\ (Len(Triggered) = 0) <=>
              (evalResult[1].details = <<Text(NoIssuesOf(EvalKey))>>)
        /\ \A i \in 1..Len(Triggered) : Triggered[i].d > 0

\* analyzeSSLCertificate has returned 100 and the 'no issues' string for a
\* site with HTTPS, HSTS, no mixed content and a certificate far from expiry.
C28_Witness ==
    /\ evalResult # <<>>
    /\ evalMetric[1].name = "SSL Certificate"
    /\ evalDraws.hasSSL
    /\ evalResult[1].score = 100
    /\ evalResult[1].details = <<Text("SSL configuration is secure")>>

\* C29: in every evaluator, for every measured input, 100 minus the sum of
\* the deductions of the triggered rules is at least 0 and is the score
\* returned: Math.max(score, 0) changes nothing.
C29_ClampNeverNeeded ==
    (evalResult # <<>> /\ EvalKey \in MetricKeys) =>
        /\ 100 - TotalDeduction(Triggered) >= 0
        /\ evalResult[1].score = 100 - TotalDeduction(Triggered)

\* analyzePageSpeed has returned with the first tier of the load time and
\* every other rule triggered: the deductions come to 100 and the score is 0.
C29_Witness ==
    /\ evalResult # <<>>
    /\ evalMetric[1].name = "Page Speed"
    /\ Len(Triggered) = 5
    /\ TotalDeduction(Triggered) = 100
    /\ evalResult[1].score = 0

\* C30: for each of the twelve metrics, every specificData key that
\* generateSpecificDataHtml and extractKeyInfo read for the metric is a key
\* of the specificData its evaluator returned.
C30_RenderedKeysPopulated ==
    (evalResult # <<>> /\ EvalKey \in MetricKeys) =>
        (SpecificDataKeysRead(EvalKey) \cup KeyInfoKeysRead(evalMetric[1].name))
            \subseteq DOMAIN evalResult[1].specificData
=============================================================================
